---- MODULE Spec2Model ----
(***************************************************************************)
(* Emotion playlist backend: the result aggregation of                     *)
(* EmotionClassifier.classify, the subprocess client call_cpp_engine and   *)
(* the Flask handlers /classify, /analyze, /playlist and /playlist/full.   *)
(*                                                                         *)
(* Scores, probabilities and thresholds are integers in units of 10^-5,    *)
(* so that round(score, 4) is a real conversion.  Strings are atoms;       *)
(* a concatenation (an f-string, ','.join) is the sequence of its pieces.  *)
(***************************************************************************)
EXTENDS Integers, Sequences, FiniteSets, TLC

(***************************************************************************)
(* Bounds of the model.                                                    *)
(***************************************************************************)
\* number of output classes of the model (28 in the deployed model)
NumClasses == 3
\* number of request slots of the server
NumReq == 2

(***************************************************************************)
(* classify.py: vocabulary and taxonomy.                                   *)
(***************************************************************************)
EMOTION_LABELS ==
    << "admiration", "amusement", "anger", "annoyance", "approval", "caring",
       "confusion", "curiosity", "desire", "disappointment", "disapproval",
       "disgust", "embarrassment", "excitement", "fear", "gratitude", "grief",
       "joy", "love", "nervousness", "optimism", "pride", "realization",
       "relief", "remorse", "sadness", "surprise", "neutral" >>

EMOTION_MAPPING ==
    { <<"joy", "happy">>, <<"amusement", "happy">>, <<"excitement", "excited">>,
      <<"optimism", "excited">>, <<"approval", "happy">>, <<"admiration", "happy">>,
      <<"gratitude", "happy">>, <<"love", "happy">>, <<"pride", "excited">>,
      <<"relief", "happy">>, <<"sadness", "sad">>, <<"grief", "sad">>,
      <<"disappointment", "sad">>, <<"remorse", "sad">>, <<"embarrassment", "sad">>,
      <<"nervousness", "sad">>, <<"fear", "sad">>, <<"anger", "sad">>,
      <<"annoyance", "sad">>, <<"disapproval", "sad">>, <<"disgust", "sad">>,
      <<"neutral", "neutral">>, <<"realization", "neutral">>,
      <<"confusion", "neutral">>, <<"curiosity", "neutral">>,
      <<"surprise", "excited">>, <<"desire", "excited">>, <<"caring", "happy">> }

\* a lookup that hands back the key when the key is missing
MappingGet_key(label, default) ==
    IF \E p \in EMOTION_MAPPING : p[1] = label
    THEN (CHOOSE p \in EMOTION_MAPPING : p[1] = label)[2]
    ELSE label

\* dict.get(key, default) on EMOTION_MAPPING
MappingGet(label, default) ==
    IF \E p \in EMOTION_MAPPING : p[1] = label
    THEN (CHOOSE p \in EMOTION_MAPPING : p[1] = label)[2]
    ELSE default

\* The order of Python's sorted() on the mood strings (codepoint order).
MoodRank(m) ==
    CASE m = "excited" -> 1
      [] m = "happy"   -> 2
      [] m = "neutral" -> 3
      [] m = "sad"     -> 4

RECURSIVE SortedList(_)
\* sorted(list(s)) for a set s of mood strings
SortedList(s) ==
    IF s = {} THEN << >>
    ELSE LET least == CHOOSE m \in s : \A o \in s : MoodRank(m) <= MoodRank(o)
         IN  << least >> \o SortedList(s \ {least})

(***************************************************************************)
(* Numbers.  1.0 is 100000.                                                *)
(***************************************************************************)
\* round(score, 4): to the nearest multiple of 10^-4, halves to even
Round4(score) ==
    LET q == score \div 10
        r == score % 10
    IN  10 * (IF r < 5 \/ (r = 5 /\ q % 2 = 0) THEN q ELSE q + 1)

Min(a, b) == IF a <= b THEN a ELSE b

(***************************************************************************)
(* The Inference Engine's output: the softmax vector, held as the ranking  *)
(* torch.topk reads it in (descending score), over the first NumClasses    *)
(* class indices the model draws from.  Indices are 0-based as in the code.*)
(***************************************************************************)
\* joy, excitement, neutral, sadness, confusion
ClassPool == << 17, 13, 27, 25, 6 >>

ClassIdx == { ClassPool[i] : i \in 1..NumClasses }

ScoreGrid ==
    { 0, 4, 9996, 10000, 15004, 24996, 30000, 40000, 45000, 50000, 59996,
      60000, 74996, 84996, 90000, 100000 }

\* the orders the classes can come in
ClassOrders ==
    { c \in [1..NumClasses -> ClassIdx] :
        \A i, j \in 1..NumClasses : i < j => c[i] # c[j] }

RECURSIVE Sum(_)
Sum(seq) == IF seq = << >> THEN 0 ELSE seq[1] + Sum(Tail(seq))

\* descending probabilities that sum to 1
ScoreVectors ==
    { v \in [1..NumClasses -> ScoreGrid] :
        /\ \A i \in 1..(NumClasses - 1) : v[i] >= v[i + 1]
        /\ Sum(v) = 100000 }

Rankings ==
    { [ i \in 1..NumClasses |-> [idx |-> c[i], score |-> v[i]] ] :
        c \in ClassOrders, v \in ScoreVectors }

(***************************************************************************)
(* Exceptions and results of calls: a call either returns a value or       *)
(* raises; str(e) of what it raised is a sequence of pieces.               *)
(***************************************************************************)
NoValue == [none |-> TRUE]

Return(v) == [raised |-> FALSE, exc |-> << >>, value |-> v]

Raise(msg) == [raised |-> TRUE, exc |-> msg, value |-> NoValue]

(***************************************************************************)
(* EmotionClassifier.classify, lines 119-143.                              *)
(***************************************************************************)
\* torch.topk(probs, k): the k highest entries in descending order;
\* a negative k is rejected by torch.
torch_topk(probs, k) ==
    IF k < 0 THEN Raise(<< "selected index k out of range" >>)
    ELSE Return(SubSeq(probs, 1, k))

\* the loop of lines 125-131: entries passing the threshold, score rounded
raw_emotions_of(top, threshold) ==
    LET kept == SelectSeq(top, LAMBDA e : e.score >= threshold)
    IN  [ i \in 1..Len(kept) |->
            [ emotion |-> EMOTION_LABELS[kept[i].idx + 1],
              score   |-> Round4(kept[i].score) ] ]

\* lines 133-135 and 140
simplified_emotions_of(raw) ==
    SortedList({ MappingGet(raw[i].emotion, "neutral") : i \in 1..Len(raw) })

\* a dominant emotion read from the wrong end of the list
dominant_emotion_last(raw) ==
    IF raw # << >> THEN raw[Len(raw)].emotion ELSE "neutral"

\* line 141
dominant_emotion_of(raw) ==
    IF raw # << >> THEN raw[1].emotion ELSE "neutral"

\* line 142
confidence_of(raw) ==
    IF raw # << >> THEN raw[1].score ELSE 0

\* lines 119-143, given the softmax vector of lines 104-117
aggregate(text, probs, top_k, threshold) ==
    LET top == torch_topk(probs, Min(top_k, Len(probs)))
    IN  IF top.raised THEN top
        ELSE LET raw == raw_emotions_of(top.value, threshold)
             IN  Return([ text                |-> text,
                          raw_emotions        |-> raw,
                          simplified_emotions |-> simplified_emotions_of(raw),
                          dominant_emotion    |-> dominant_emotion_of(raw),
                          confidence          |-> confidence_of(raw) ])

(***************************************************************************)
(* JSON values of a request body.  get_json() gives None or an object;     *)
(* a field is absent, null, a number, a string or (emotions) a list.       *)
(***************************************************************************)
Absent == [t |-> "absent", s |-> ""]

Null == [t |-> "null", s |-> ""]

Num == [t |-> "int", s |-> ""]

Str(s) == [t |-> "str", s |-> s]

NotGiven == [given |-> FALSE, n |-> 0]

Given(n) == [given |-> TRUE, n |-> n]

NoList == [t |-> "absent", items |-> << >>]

NotAList == [t |-> "str", items |-> << >>]

List(items) == [t |-> "list", items |-> items]

\* isinstance(v, str)
IsStr(v) == v.t = "str"

\* str.strip() on the strings requests carry
Strip(s) ==
    CASE s \in {"", " ", "   "} -> ""
      [] s = " happy "          -> "happy"
      [] OTHER                  -> s

\* data is None or an empty dict: "not data"
NotData(data) ==
    \/ data.json = "none"
    \/ /\ data.text.t = "absent"
       /\ ~data.top_k.given
       /\ ~data.threshold.given
       /\ data.emotions.t = "absent"

\* data.get(key, default) for the numeric options
GetOr(field, default) == IF field.given THEN field.n ELSE default

\* classify_route.py:65 and playlist_route.py:184
DefaultTopK == 3

\* classify_route.py:66 and playlist_route.py:185 (0.1)
DefaultThreshold == 10000

NoneBody ==
    [json |-> "none", text |-> Absent, top_k |-> NotGiven,
     threshold |-> NotGiven, emotions |-> NoList]

TextVals == { Absent, Null, Num, Str(""), Str("   "), Str("I feel happy") }

TopKFields == { NotGiven, Given(-1), Given(0), Given(2) }

ThresholdFields == { NotGiven, Given(0), Given(15001), Given(100001) }

EmotionsVals ==
    { NoList, NotAList, List(<< >>), List(<< Str("happy") >>),
      List(<< Str("happy"), Str("sad") >>), List(<< Str("happy"), Str(" ") >>),
      List(<< Num >>), List(<< Str(" happy ") >>) }

\* bodies sent to /classify and /playlist/full
TextBodies ==
    { NoneBody } \cup
    [ json : {"object"}, text : TextVals, top_k : TopKFields,
      threshold : ThresholdFields, emotions : {NoList} ]

\* bodies sent to /analyze, which reads text alone
AnalyzeBodies ==
    { NoneBody } \cup
    [ json : {"object"}, text : TextVals, top_k : {NotGiven},
      threshold : {NotGiven}, emotions : {NoList} ]

\* bodies sent to /playlist
PlaylistBodies ==
    { NoneBody } \cup
    [ json : {"object"}, text : {Absent}, top_k : {NotGiven},
      threshold : {NotGiven}, emotions : EmotionsVals ]

Ops == { "classify", "analyze", "playlist", "full" }

BodiesOf(op) ==
    CASE op = "analyze"  -> AnalyzeBodies
      [] op = "playlist" -> PlaylistBodies
      [] OTHER           -> TextBodies

(***************************************************************************)
(* Responses: (jsonify(body), status).                                     *)
(***************************************************************************)
NoResp == [status |-> 0, body |-> NoValue]

\* the 400 returns of the handlers
BadRequest(msg) ==
    [status |-> 400, body |-> [error |-> "Bad Request", message |-> msg]]

\* an except clause that answers with the bad-input status
InternalServerError_as_400(exc) ==
    [status |-> 400, body |-> [error |-> "Internal Server Error", message |-> exc]]

\* the "except Exception as e" clause of every handler
InternalServerError(exc) ==
    [status |-> 500, body |-> [error |-> "Internal Server Error", message |-> exc]]

Ok(body) == [status |-> 200, body |-> body]

(***************************************************************************)
(* playlist_route.py: the engine client.                                   *)
(***************************************************************************)
CPP_EXECUTABLE == "../../../cpp/build/emotion_playlist.exe"

SONGS_CSV == "../../../data/songs.csv"

\* subprocess.run(..., timeout=10), playlist_route.py:45
Timeout == 10

RECURSIVE Join(_)
\* ','.join(emotions), as its pieces
Join(emotions) ==
    IF Len(emotions) = 0 THEN << >>
    ELSE IF Len(emotions) = 1 THEN << emotions[1] >>
    ELSE << emotions[1], "," >> \o Join(Tail(emotions))

\* the argument vector of line 42
Argv(emotions) == << CPP_EXECUTABLE, SONGS_CSV, Join(emotions) >>

Song1 == [id |-> 1]

JsonObject(has_songs, songs, has_count, count) ==
    [t |-> "object", has_songs |-> has_songs, songs |-> songs,
     has_count |-> has_count, count |-> count]

JsonList == [t |-> "list", has_songs |-> FALSE, songs |-> << >>,
             has_count |-> FALSE, count |-> 0]

OutOne == "{\"songs\": [{\"id\": 1}], \"count\": 1}"

OutNone == "{\"songs\": [], \"count\": 0}"

OutMiscount == "{\"songs\": [{\"id\": 1}], \"count\": 5}"

OutNoCount == "{\"songs\": [{\"id\": 1}]}"

OutNoSongs == "{\"error\": \"no catalog\"}"

OutList == "[]"

OutGarbage == "Loaded 3 songs"

Stdouts == { OutOne, OutNone, OutMiscount, OutNoCount, OutNoSongs, OutList,
             OutGarbage, "" }

\* json.loads(result.stdout) on what the engine can print
json_loads(stdout) ==
    CASE stdout = OutOne      -> Return(JsonObject(TRUE, << Song1 >>, TRUE, 1))
      [] stdout = OutNone     -> Return(JsonObject(TRUE, << >>, TRUE, 0))
      [] stdout = OutMiscount -> Return(JsonObject(TRUE, << Song1 >>, TRUE, 5))
      [] stdout = OutNoCount  -> Return(JsonObject(TRUE, << Song1 >>, FALSE, 0))
      [] stdout = OutNoSongs  -> Return(JsonObject(FALSE, << >>, FALSE, 0))
      [] stdout = OutList     -> Return(JsonList)
      [] OTHER -> Raise(<< "Expecting value: line 1 column 1 (char 0)" >>)

\* playlist_data[key] of the handlers
Subscript(data, key) ==
    IF data.t # "object"
    THEN Raise(<< "list indices must be integers or slices, not str" >>)
    ELSE IF key = "songs" /\ data.has_songs THEN Return(data.songs)
    ELSE IF key = "count" /\ data.has_count THEN Return(data.count)
    ELSE Raise(<< "'" , key, "'" >>)

\* What the engine process does once started: how long it runs and what it
\* leaves behind; or why it could not be started.
Plans ==
    [ launch : {"FileNotFoundError", "PermissionError"}, duration : {0},
      returncode : {0}, stdout : {""}, stderr : {""} ]
    \cup
    [ launch : {"ok"}, duration : {1}, returncode : {0}, stdout : Stdouts,
      stderr : {""} ]
    \cup
    [ launch : {"ok"}, duration : {1}, returncode : {1}, stdout : {"", OutOne},
      stderr : {"Error: cannot open catalog"} ]
    \cup
    [ launch : {"ok"}, duration : {Timeout, Timeout + 1}, returncode : {0},
      stdout : {OutOne}, stderr : {""} ]
    \cup
    [ launch : {"ok"}, duration : {Timeout + 1}, returncode : {1},
      stdout : {""}, stderr : {"Error: cannot open catalog"} ]

NoPlan ==
    [launch |-> "none", duration |-> 0, returncode |-> 0, stdout |-> "",
     stderr |-> ""]

NoProc == [state |-> "none", argv |-> << >>, plan |-> NoPlan, elapsed |-> 0]

\* stdout parsed before the exit status is looked at
completed_parse_first(plan) ==
    LET parsed == json_loads(plan.stdout)
    IN  IF parsed.raised
        THEN Raise(<< "Failed to parse C++ output: " >> \o parsed.exc)
        ELSE IF plan.returncode # 0
        THEN Raise(<< "C++ engine error: ", plan.stderr >>)
        ELSE parsed

\* lines 48-53 inside the try, and the handler of line 57
completed(plan) ==
    IF plan.returncode # 0
    THEN Raise(<< "C++ engine error: ", plan.stderr >>)
    ELSE LET parsed == json_loads(plan.stdout)
         IN  IF parsed.raised
             THEN Raise(<< "Failed to parse C++ output: " >> \o parsed.exc)
             ELSE parsed

\* call_cpp_engine's outcome once the process has exited: the exception of
\* line 49 is raised inside the try and so reaches the handler of line 61,
\* the one of line 58 is raised inside a handler and leaves the function.
on_exit(plan) ==
    LET r == completed(plan)
    IN  IF plan.returncode # 0
        THEN Raise(<< "C++ engine error: " >> \o r.exc)
        ELSE r

\* subprocess.run without a timeout: it waits for the process to exit
timed_out_never(elapsed) == FALSE

\* subprocess.run(timeout=10) gives up once the timeout has passed
timed_out(elapsed) == elapsed >= Timeout

\* lines 55-56
on_timeout == Raise(<< "C++ engine timeout" >>)

\* lines 59-62: subprocess.run could not start the process
on_launch_error(kind) ==
    IF kind = "FileNotFoundError"
    THEN Raise(<< "C++ executable not found at ", CPP_EXECUTABLE >>)
    ELSE Raise(<< "C++ engine error: ", "[Errno 13] Permission denied" >>)

(***************************************************************************)
(* State.                                                                  *)
(***************************************************************************)
Requests == 1..NumReq

VARIABLES
    agg,             \* one call of classify() on its own
    lookup,          \* lookups in EMOTION_MAPPING on their own
    _classifier,     \* classify_route._classifier: 0 is None, else the handle
    handles,         \* the EmotionClassifier objects constructed so far
    pc,              \* where each request's handler is
    req,             \* the operation and the body of each request
    classifier,      \* the handle get_classifier() returned to the request
    classification,  \* the local "classification" / "result"
    emotions,        \* the local "emotions"
    proc,            \* the engine process the request started
    playlist_data,   \* the local "playlist_data"
    resp,            \* the response returned
    trace            \* the stages the handler has entered, in order

vars == << agg, lookup, _classifier, handles, pc, req, classifier, classification,
           emotions, proc, playlist_data, resp, trace >>

server == << _classifier, handles, pc, req, classifier, classification,
             emotions, proc, playlist_data, resp, trace >>

NoReq == [op |-> "none", data |-> NoneBody]

NoClassification == Raise(<< "not classified" >>)

NoPlaylist == Raise(<< "no playlist" >>)

InitServer ==
    /\ _classifier = 0
    /\ handles = {}
    /\ pc = [r \in Requests |-> "idle"]
    /\ req = [r \in Requests |-> NoReq]
    /\ classifier = [r \in Requests |-> 0]
    /\ classification = [r \in Requests |-> NoClassification]
    /\ emotions = [r \in Requests |-> << >>]
    /\ proc = [r \in Requests |-> NoProc]
    /\ playlist_data = [r \in Requests |-> NoPlaylist]
    /\ resp = [r \in Requests |-> NoResp]
    /\ trace = [r \in Requests |-> << >>]



(***************************************************************************)
(* Validation, as each handler does it.                                    *)
(***************************************************************************)
\* classify_route.py:58 and :114, playlist_route.py:177
text_missing(data) == NotData(data) \/ data.text.t = "absent"

\* the check of the type alone, without strip()
text_invalid_no_strip(text) == ~IsStr(text)

\* classify_route.py:69 and :123
text_invalid(text) == ~IsStr(text) \/ Strip(text.s) = ""

\* playlist_route.py:98
emotions_missing(data) == NotData(data) \/ data.emotions.t = "absent"

\* playlist_route.py:107
emotions_invalid(e) == e.t # "list" \/ Len(e.items) = 0

\* the check of the entry's type alone, without strip()
emotion_invalid_no_strip(e) == ~IsStr(e)

\* playlist_route.py:114-115
emotion_invalid(e) == ~IsStr(e) \/ Strip(e.s) = ""

\* classify_emotion, lines 58-73, and analyze_emotion, lines 114-127:
\* the 400 response, or NoResp when the request passes
validate_text(data) ==
    IF text_missing(data)
    THEN BadRequest(<< "Missing required field: text" >>)
    ELSE IF text_invalid(data.text)
    THEN BadRequest(<< "text must be a non-empty string" >>)
    ELSE NoResp

\* generate_full_playlist, lines 177-185
validate_full(data) ==
    IF text_missing(data)
    THEN BadRequest(<< "Missing required field: text" >>)
    ELSE NoResp

\* generate_playlist, lines 98-119
validate_playlist(data) ==
    IF emotions_missing(data)
    THEN BadRequest(<< "Missing required field: emotions" >>)
    ELSE IF emotions_invalid(data.emotions)
    THEN BadRequest(<< "emotions must be a non-empty list" >>)
    ELSE IF \E i \in 1..Len(data.emotions.items) :
                emotion_invalid(data.emotions.items[i])
    THEN BadRequest(<< "All emotions must be non-empty strings" >>)
    ELSE NoResp

validate(op, data) ==
    CASE op = "playlist" -> validate_playlist(data)
      [] op = "full"     -> validate_full(data)
      [] OTHER           -> validate_text(data)

\* the top_k and threshold each handler passes to classify()
top_k_of(r) ==
    IF r.op = "analyze" THEN DefaultTopK ELSE GetOr(r.data.top_k, DefaultTopK)

threshold_of(r) ==
    IF r.op = "analyze" THEN DefaultThreshold
    ELSE GetOr(r.data.threshold, DefaultThreshold)

\* classifier.classify(text, top_k=..., threshold=...): the tokenizer of
\* line 105 takes strings only; then lines 119-143 on the softmax vector
classify(text, probs, top_k, threshold) ==
    IF ~IsStr(text)
    THEN Raise(<< "text input must be of type str" >>)
    ELSE aggregate(text.s, probs, top_k, threshold)

\* the moods passed on as they are, without the ['neutral'] fallback
playlist_emotions_as_is(simplified) == simplified

\* classify_route.py:134-136 and playlist_route.py:198-201
playlist_emotions(simplified) ==
    IF simplified = << >> THEN << "neutral" >> ELSE simplified

\* the softmax vectors the Inference Engine gives the handlers
InferenceOutputs ==
    { p \in Rankings :
        /\ p[1].score \in {100000, 84996}
        /\ \/ \A i \in 1..NumClasses : p[i].idx = ClassPool[i]
           \/ \A i \in 1..NumClasses : p[i].idx = ClassPool[NumClasses + 1 - i] }

(***************************************************************************)
(* The handlers, step by step.  A step that raises ends the handler in     *)
(* its "except Exception" clause.                                          *)
(***************************************************************************)
Enter(r, stage) == trace' = [trace EXCEPT ![r] = Append(@, stage)]

Fail(r, response) ==
    /\ resp' = [resp EXCEPT ![r] = response]
    /\ pc' = [pc EXCEPT ![r] = "done"]

\* a request arrives and the handler starts
Receive(r, op, data) ==
    /\ pc[r] = "idle"
    /\ req' = [req EXCEPT ![r] = [op |-> op, data |-> data]]
    /\ pc' = [pc EXCEPT ![r] = "validating"]
    /\ UNCHANGED << agg, lookup, _classifier, handles, classifier, classification,
                    emotions, proc, playlist_data, resp, trace >>

\* the checks with the 400 response built but not returned: the handler
\* goes on to its first call
Validate_no_return(r) ==
    /\ pc[r] = "validating"
    /\ Enter(r, "validate")
    /\ resp' = [resp EXCEPT ![r] = validate(req[r].op, req[r].data)]
    /\ pc' = [pc EXCEPT ![r] = IF req[r].op = "playlist" THEN "invoking"
                                                         ELSE "get_classifier"]
    /\ emotions' = [emotions EXCEPT ![r] =
           [ i \in 1..Len(req[r].data.emotions.items) |->
               req[r].data.emotions.items[i].s ]]
    /\ UNCHANGED << agg, lookup, _classifier, handles, req, classifier, classification,
                    proc, playlist_data >>

\* request.get_json() and the checks before the first call
Validate(r) ==
    /\ pc[r] = "validating"
    /\ Enter(r, "validate")
    /\ LET bad == validate(req[r].op, req[r].data)
       IN  IF bad # NoResp
           THEN /\ Fail(r, bad)
                /\ UNCHANGED emotions
           ELSE /\ resp' = resp
                /\ IF req[r].op = "playlist"
                   THEN /\ emotions' = [emotions EXCEPT ![r] =
                              [ i \in 1..Len(req[r].data.emotions.items) |->
                                  req[r].data.emotions.items[i].s ]]
                        /\ pc' = [pc EXCEPT ![r] = "invoking"]
                   ELSE /\ emotions' = emotions
                        /\ pc' = [pc EXCEPT ![r] = "get_classifier"]
    /\ UNCHANGED << agg, lookup, _classifier, handles, req, classifier, classification,
                    proc, playlist_data >>

\* get_classifier(), line 18: if _classifier is None
GetClassifierCheck(r) ==
    /\ pc[r] = "get_classifier"
    /\ Enter(r, "get_classifier")
    /\ pc' = [pc EXCEPT ![r] = IF _classifier = 0 THEN "constructing"
                                                  ELSE "returning"]
    /\ UNCHANGED << agg, lookup, _classifier, handles, req, classifier, classification,
                    emotions, proc, playlist_data, resp >>

\* get_classifier(), line 24: _classifier = EmotionClassifier()
Construct(r) ==
    /\ pc[r] = "constructing"
    /\ handles' = handles \cup {r}
    /\ _classifier' = r
    /\ pc' = [pc EXCEPT ![r] = "returning"]
    /\ UNCHANGED << agg, lookup, req, classifier, classification, emotions, proc,
                    playlist_data, resp, trace >>

\* a failed construction that leaves a handle behind in _classifier
ConstructFail_cached(r) ==
    /\ pc[r] = "constructing"
    /\ Fail(r, InternalServerError(<< "Can't load the model" >>))
    /\ _classifier' = r
    /\ UNCHANGED << agg, lookup, handles, req, classifier, classification,
                    emotions, proc, playlist_data, trace >>

\* EmotionClassifier() raises (the model cannot be loaded)
ConstructFail(r) ==
    /\ pc[r] = "constructing"
    /\ Fail(r, InternalServerError(<< "Can't load the model" >>))
    /\ UNCHANGED << agg, lookup, _classifier, handles, req, classifier, classification,
                    emotions, proc, playlist_data, trace >>

\* get_classifier(), line 26: return _classifier
GetClassifierReturn(r) ==
    /\ pc[r] = "returning"
    /\ classifier' = [classifier EXCEPT ![r] = _classifier]
    /\ pc' = [pc EXCEPT ![r] = "classifying"]
    /\ UNCHANGED << agg, lookup, _classifier, handles, req, classification, emotions,
                    proc, playlist_data, resp, trace >>

\* classifier.classify(...) on what the Inference Engine computes
Classify(r, probs) ==
    /\ pc[r] = "classifying"
    /\ Enter(r, "classify")
    /\ LET result == classify(req[r].data.text, probs, top_k_of(req[r]),
                              threshold_of(req[r]))
       IN  IF result.raised
           THEN /\ Fail(r, InternalServerError(result.exc))
                /\ UNCHANGED classification
           ELSE /\ classification' = [classification EXCEPT ![r] = result]
                /\ pc' = [pc EXCEPT ![r] =
                            IF req[r].op = "classify" THEN "assembling"
                                                      ELSE "mapping"]
                /\ resp' = resp
    /\ UNCHANGED << agg, lookup, _classifier, handles, req, classifier, emotions, proc,
                    playlist_data >>

\* emotions = simplified_emotions, or ['neutral']
Map(r) ==
    /\ pc[r] = "mapping"
    /\ Enter(r, "map")
    /\ emotions' = [emotions EXCEPT ![r] =
           playlist_emotions(classification[r].value.simplified_emotions)]
    /\ pc' = [pc EXCEPT ![r] = "invoking"]
    /\ UNCHANGED << agg, lookup, _classifier, handles, req, classifier, classification,
                    proc, playlist_data, resp >>

\* call_cpp_engine(emotions): subprocess.run starts the engine, or cannot
EngineLaunch(r, plan) ==
    /\ pc[r] = "invoking"
    /\ Enter(r, "call_cpp_engine")
    /\ IF plan.launch = "ok"
       THEN /\ proc' = [proc EXCEPT ![r] =
                   [state |-> "running", argv |-> Argv(emotions[r]),
                    plan |-> plan, elapsed |-> 0]]
            /\ pc' = [pc EXCEPT ![r] = "waiting"]
            /\ resp' = resp
       ELSE /\ proc' = [proc EXCEPT ![r] =
                   [state |-> "failed", argv |-> Argv(emotions[r]),
                    plan |-> plan, elapsed |-> 0]]
            /\ Fail(r, InternalServerError(on_launch_error(plan.launch).exc))
    /\ UNCHANGED << agg, lookup, _classifier, handles, req, classifier, classification,
                    emotions, playlist_data >>

\* one clock for every engine process: a time unit passes for all of them
EngineTick_shared(r) ==
    /\ pc[r] = "waiting"
    /\ ~timed_out(proc[r].elapsed)
    /\ proc[r].elapsed < proc[r].plan.duration
    /\ proc' = [ o \in Requests |->
                   IF proc[o].state = "running"
                   THEN [proc[o] EXCEPT !.elapsed = @ + 1] ELSE proc[o] ]
    /\ UNCHANGED << agg, lookup, _classifier, handles, pc, req, classifier,
                    classification, emotions, playlist_data, resp, trace >>

\* a time unit passes while subprocess.run waits for the process
EngineTick(r) ==
    /\ pc[r] = "waiting"
    /\ ~timed_out(proc[r].elapsed)
    /\ proc[r].elapsed < proc[r].plan.duration
    /\ proc' = [proc EXCEPT ![r].elapsed = @ + 1]
    /\ UNCHANGED << agg, lookup, _classifier, handles, pc, req, classifier,
                    classification, emotions, playlist_data, resp, trace >>

\* the process exits before subprocess.run gives up
EngineExit(r) ==
    /\ pc[r] = "waiting"
    /\ proc[r].elapsed = proc[r].plan.duration
    /\ proc' = [proc EXCEPT ![r].state = "exited"]
    /\ LET result == on_exit(proc[r].plan)
       IN  IF result.raised
           THEN /\ Fail(r, InternalServerError(result.exc))
                /\ UNCHANGED playlist_data
           ELSE /\ playlist_data' = [playlist_data EXCEPT ![r] = result]
                /\ pc' = [pc EXCEPT ![r] = "assembling"]
                /\ resp' = resp
    /\ UNCHANGED << agg, lookup, _classifier, handles, req, classifier, classification,
                    emotions, trace >>

\* a timeout after which the handler calls the engine once more
EngineExpire_retry(r) ==
    /\ pc[r] = "waiting"
    /\ timed_out(proc[r].elapsed)
    /\ proc[r].plan.duration >= proc[r].elapsed
    /\ proc' = [proc EXCEPT ![r].state = "killed"]
    /\ pc' = [pc EXCEPT ![r] = "invoking"]
    /\ UNCHANGED << agg, lookup, _classifier, handles, req, classifier,
                    classification, emotions, playlist_data, resp, trace >>

\* subprocess.TimeoutExpired: the process is killed
EngineExpire(r) ==
    /\ pc[r] = "waiting"
    /\ timed_out(proc[r].elapsed)
    /\ proc[r].plan.duration >= proc[r].elapsed
    /\ proc' = [proc EXCEPT ![r].state = "killed"]
    /\ Fail(r, InternalServerError(on_timeout.exc))
    /\ UNCHANGED << agg, lookup, _classifier, handles, req, classifier, classification,
                    emotions, playlist_data, trace >>

\* a response whose playlist section reports the classifier's moods
\* instead of the list handed to the engine
response_of_unnormalized(r, cls, emo, data) ==
    LET songs == Subscript(data, "songs")
        count == Subscript(data, "count")
    IN  CASE r.op = "classify" -> Return(cls)
          [] r.op = "analyze" ->
               IF songs.raised THEN songs
               ELSE Return([ emotion    |-> cls.dominant_emotion,
                             confidence |-> cls.confidence,
                             playlist   |-> songs.value ])
          [] r.op = "playlist" ->
               IF songs.raised THEN songs
               ELSE IF count.raised THEN count
               ELSE Return([ emotions |-> emo,
                             songs    |-> songs.value,
                             count    |-> count.value ])
          [] r.op = "full" ->
               IF songs.raised THEN songs
               ELSE IF count.raised THEN count
               ELSE Return([ text |-> r.data.text.s,
                             classification |->
                               [ raw_emotions        |-> cls.raw_emotions,
                                 simplified_emotions |-> cls.simplified_emotions,
                                 dominant_emotion    |-> cls.dominant_emotion,
                                 confidence          |-> cls.confidence ],
                             playlist |->
                               [ emotions |-> cls.simplified_emotions,
                                 songs    |-> songs.value,
                                 count    |-> count.value ] ])

\* the response of each handler, or what building it raises
response_of(r, cls, emo, data) ==
    LET songs == Subscript(data, "songs")
        count == Subscript(data, "count")
    IN  CASE r.op = "classify" -> Return(cls)
          [] r.op = "analyze" ->
               IF songs.raised THEN songs
               ELSE Return([ emotion    |-> cls.dominant_emotion,
                             confidence |-> cls.confidence,
                             playlist   |-> songs.value ])
          [] r.op = "playlist" ->
               IF songs.raised THEN songs
               ELSE IF count.raised THEN count
               ELSE Return([ emotions |-> emo,
                             songs    |-> songs.value,
                             count    |-> count.value ])
          [] r.op = "full" ->
               IF songs.raised THEN songs
               ELSE IF count.raised THEN count
               ELSE Return([ text |-> r.data.text.s,
                             classification |->
                               [ raw_emotions        |-> cls.raw_emotions,
                                 simplified_emotions |-> cls.simplified_emotions,
                                 dominant_emotion    |-> cls.dominant_emotion,
                                 confidence          |-> cls.confidence ],
                             playlist |->
                               [ emotions |-> emo,
                                 songs    |-> songs.value,
                                 count    |-> count.value ] ])

\* the handler builds its response and returns it with 200
Assemble(r) ==
    /\ pc[r] = "assembling"
    /\ Enter(r, "assemble")
    /\ LET body == response_of(req[r], classification[r].value, emotions[r],
                               playlist_data[r].value)
       IN  IF body.raised
           THEN Fail(r, InternalServerError(body.exc))
           ELSE Fail(r, Ok(body.value))
    /\ UNCHANGED << agg, lookup, _classifier, handles, req, classifier, classification,
                    emotions, proc, playlist_data >>

\* the response is sent; the slot takes the next request
Reset(r) ==
    /\ pc[r] = "done"
    /\ pc' = [pc EXCEPT ![r] = "idle"]
    /\ req' = [req EXCEPT ![r] = NoReq]
    /\ classifier' = [classifier EXCEPT ![r] = 0]
    /\ classification' = [classification EXCEPT ![r] = NoClassification]
    /\ emotions' = [emotions EXCEPT ![r] = << >>]
    /\ proc' = [proc EXCEPT ![r] = NoProc]
    /\ playlist_data' = [playlist_data EXCEPT ![r] = NoPlaylist]
    /\ resp' = [resp EXCEPT ![r] = NoResp]
    /\ trace' = [trace EXCEPT ![r] = << >>]
    /\ UNCHANGED << agg, lookup, _classifier, handles >>

NoAgg ==
    [ text |-> "", probs |-> << >>, top_k |-> 0, threshold |-> 0,
      called |-> TRUE, out |-> Raise(<< "not called" >>) ]

NoLookup == [label |-> "", again |-> "", moods |-> << >>]

\* requests are served one at a time
Serial(r) == \A o \in Requests \ {r} : pc[o] = "idle"

Init ==
    /\ agg = NoAgg
    /\ lookup = NoLookup
    /\ InitServer

Next ==
    \E r \in Requests :
        \/ \E op \in Ops : \E data \in BodiesOf(op) :
              Serial(r) /\ Receive(r, op, data)
        \/ Validate(r)
        \/ GetClassifierCheck(r)
        \/ Construct(r)
        \/ ConstructFail(r)
        \/ GetClassifierReturn(r)
        \/ \E probs \in InferenceOutputs : Classify(r, probs)
        \/ Map(r)
        \/ \E plan \in Plans : EngineLaunch(r, plan)
        \/ EngineTick(r)
        \/ EngineExit(r)
        \/ EngineExpire(r)
        \/ Assemble(r)
        \/ Reset(r)

Spec == Init /\ [][Next]_vars

\* A handler that has started the engine keeps running: time passes, and
\* subprocess.run returns or raises.
EngineProgress(r) == EngineTick(r) \/ EngineExit(r) \/ EngineExpire(r)

FairSpec == Spec /\ \A r \in Requests : WF_vars(EngineProgress(r))

(***************************************************************************)
(* The threaded server: app.run() serves every request in a thread of its  *)
(* own, so the handlers' steps interleave.  The requests are those that    *)
(* pass validation and reach get_classifier().                             *)
(***************************************************************************)
ConcOps == { "classify", "analyze", "full" }

ConcBodies ==
    [ json : {"object"}, text : {Str("I feel happy")}, top_k : {NotGiven},
      threshold : {NotGiven}, emotions : {NoList} ]

ConcOutputs ==
    { p \in InferenceOutputs : p[1].idx = ClassPool[1] /\ p[1].score = 84996 }

ConcPlans ==
    { p \in Plans :
        /\ p.launch # "PermissionError"
        /\ p.duration <= 1
        /\ p.stdout = (IF p.launch = "ok" /\ p.returncode = 0 THEN OutOne ELSE "") }

NextConc ==
    \E r \in Requests :
        \/ \E op \in ConcOps : \E data \in ConcBodies : Receive(r, op, data)
        \/ Validate(r)
        \/ GetClassifierCheck(r)
        \/ Construct(r)
        \/ ConstructFail(r)
        \/ GetClassifierReturn(r)
        \/ \E probs \in ConcOutputs : Classify(r, probs)
        \/ Map(r)
        \/ \E plan \in ConcPlans : EngineLaunch(r, plan)
        \/ EngineTick(r)
        \/ EngineExit(r)
        \/ Assemble(r)
        \/ Reset(r)

SpecConc == Init /\ [][NextConc]_vars

(***************************************************************************)
(* The threaded server on /playlist alone: every handler thread runs its   *)
(* own subprocess.run, with its own process and its own timeout.           *)
(***************************************************************************)
EngineBodies ==
    [ json : {"object"}, text : {Absent}, top_k : {NotGiven},
      threshold : {NotGiven}, emotions : { List(<< Str("happy") >>) } ]

\* a quick success, malformed output, a failure status, and a process
\* that outlives the timeout
EnginePlans ==
    { p \in Plans :
        /\ p.launch = "ok"
        /\ \/ p.duration = 1 /\ p.returncode = 0 /\ p.stdout \in {OutOne, OutGarbage}
           \/ p.duration = 1 /\ p.returncode = 1 /\ p.stdout = ""
           \/ p.duration = Timeout + 1 /\ p.returncode = 0 }

NextEngines ==
    \E r \in Requests :
        \/ \E data \in EngineBodies : Receive(r, "playlist", data)
        \/ Validate(r)
        \/ \E plan \in EnginePlans : EngineLaunch(r, plan)
        \/ EngineTick(r)
        \/ EngineExit(r)
        \/ EngineExpire(r)
        \/ Assemble(r)
        \/ Reset(r)

SpecEngines == Init /\ [][NextEngines]_vars

FairSpecEngines == SpecEngines /\ \A r \in Requests : WF_vars(EngineProgress(r))

(***************************************************************************)
(* classify() on its own, over every softmax vector of the grid.           *)
(***************************************************************************)
TopKArgs == -1 .. (NumClasses + 1)

ThresholdArgs == { -1, 0, 10000, 15001, 50000, 100001 }

NotCalled == Raise(<< "not called" >>)

InitAgg ==
    /\ InitServer
    /\ lookup = NoLookup
    /\ agg \in [ text : {"I feel happy"}, probs : Rankings, top_k : TopKArgs,
              threshold : ThresholdArgs, called : {FALSE}, out : {NotCalled} ]

AggregateCall ==
    /\ ~agg.called
    /\ agg' = [agg EXCEPT !.called = TRUE,
                          !.out = aggregate(agg.text, agg.probs, agg.top_k,
                                            agg.threshold)]
    /\ UNCHANGED << lookup, server >>

NextAgg == AggregateCall

SpecAgg == InitAgg /\ [][NextAgg]_vars

(***************************************************************************)
(* EMOTION_MAPPING.get(label, 'neutral') on its own: two lookups in a row, *)
(* of labels of the vocabulary and of strings outside it.                  *)
(***************************************************************************)
Vocabulary == { EMOTION_LABELS[i] : i \in 1..Len(EMOTION_LABELS) }

LookupLabels == Vocabulary \cup { "happy", "Joy", "" }

InitMood ==
    /\ InitServer
    /\ agg = NoAgg
    /\ lookup \in [ label : LookupLabels, again : LookupLabels, moods : {<< >>} ]

\* line 134, for the next label
MapLabel ==
    /\ Len(lookup.moods) < 2
    /\ lookup' = [lookup EXCEPT !.moods =
           Append(@, MappingGet(IF Len(lookup.moods) = 0 THEN lookup.label
                                                         ELSE lookup.again,
                                "neutral"))]
    /\ UNCHANGED << agg, server >>

NextMood == MapLabel

SpecMood == InitMood /\ [][NextMood]_vars

(***************************************************************************)
(* Properties.                                                             *)
(***************************************************************************)
Done(r) == pc[r] = "done"

IsPrefix(a, b) == Len(a) <= Len(b) /\ a = SubSeq(b, 1, Len(a))

Events(r) == { trace[r][i] : i \in 1..Len(trace[r]) }

\* the envelope {error, message} and nothing else
IsErrorEnvelope(response) ==
    /\ response.status \in {400, 500}
    /\ DOMAIN response.body = {"error", "message"}

\* the kind an envelope states
ErrorKind(response) == response.body.error

\* no classification section and no songs, at any depth
NoPartialResult(response) ==
    DOMAIN response.body \cap
        {"classification", "playlist", "songs", "raw_emotions"} = {}

BlankStrings == { "", " ", "   " }

\* a request whose text is absent, blank or not a string
TextUnusable(data) ==
    \/ data.json = "none"
    \/ data.text.t # "str"
    \/ data.text.s \in BlankStrings

AggReturned == agg.called /\ ~agg.out.raised

\* C1: the raw_emotions classify() returns has at most
\* min(top_k, len(probs)) entries, and every entry's score is >= threshold.
C1_TopLabelsWithinBounds ==
    AggReturned =>
        LET raw == agg.out.value.raw_emotions
        IN  /\ Len(raw) <= Min(agg.top_k, Len(agg.probs))
            /\ \A i \in 1..Len(raw) : raw[i].score >= agg.threshold

\* C2: dominant_emotion and confidence are the label and the score of the
\* first entry of raw_emotions, and "neutral" and 0.0 when there is none.
C2_DominantIsFirst ==
    AggReturned =>
        LET out == agg.out.value
            raw == out.raw_emotions
        IN  IF Len(raw) > 0
            THEN /\ out.dominant_emotion = raw[1].emotion
                 /\ out.confidence = raw[1].score
            ELSE /\ out.dominant_emotion = "neutral"
                 /\ out.confidence = 0

\* C2 witness: two entries survive, with different labels and scores
C2_Witness ==
    /\ AggReturned
    /\ Len(agg.out.value.raw_emotions) = 2
    /\ agg.out.value.raw_emotions[1].score > agg.out.value.raw_emotions[2].score
    /\ agg.out.value.dominant_emotion = "excitement"

\* C3: a request that reaches classify() with top_k <= 0 is answered with a
\* bad-input error: never a success, never an internal error.
C3_NonPositiveTopKRejected ==
    \A r \in Requests :
        (Done(r) /\ "classify" \in Events(r) /\ top_k_of(req[r]) <= 0) =>
            /\ resp[r].status = 400
            /\ ErrorKind(resp[r]) = "Bad Request"

\* C4: the mood list /playlist/full and /analyze pass to the engine is never
\* empty: ["neutral"] when classify() gave no moods, else those moods.
C4_MoodsNormalized ==
    \A r \in Requests :
        (req[r].op \in {"full", "analyze"} /\ proc[r].state # "none") =>
            LET moods == classification[r].value.simplified_emotions
            IN  /\ emotions[r] # << >>
                /\ proc[r].argv[3] # << >>
                /\ moods = << >> =>
                     /\ emotions[r] = << "neutral" >>
                     /\ proc[r].argv[3] = << "neutral" >>
                /\ moods # << >> =>
                     /\ emotions[r] = moods
                     /\ proc[r].argv[3] = Join(moods)

\* C4 witness: the engine was started for a classification without moods
C4_Witness ==
    \E r \in Requests :
        /\ req[r].op = "full"
        /\ proc[r].state = "running"
        /\ classification[r].value.simplified_emotions = << >>
        /\ proc[r].argv[3] = << "neutral" >>

\* C5: an engine process that runs longer than the timeout always ends in
\* the timeout failure: the handler gets it eventually and never a success,
\* whatever the process would have done later.
C5_TimeoutAlwaysFails ==
    \A r \in Requests :
        /\ [](  (proc[r].state # "none" /\ proc[r].plan.launch = "ok"
                   /\ proc[r].plan.duration > Timeout /\ Done(r))
                => resp[r] = InternalServerError(<< "C++ engine timeout" >>) )
        /\ (  (proc[r].state = "running" /\ proc[r].plan.duration > Timeout)
              ~> (proc[r].state = "killed" /\ Done(r) /\ resp[r].status = 500) )

\* C5 witness: killed at the timeout, though it would have exited with
\* status 0 and a valid playlist one time unit later
C5_Witness ==
    \E r \in Requests :
        /\ proc[r].state = "killed"
        /\ proc[r].elapsed = Timeout
        /\ proc[r].plan.duration = Timeout + 1
        /\ proc[r].plan.returncode = 0
        /\ ~json_loads(proc[r].plan.stdout).raised
        /\ resp[r].status = 500

\* the kind of the envelope a non-zero exit of the engine ends in
NonZeroExitKind ==
    ErrorKind(InternalServerError(
        on_exit([launch |-> "ok", duration |-> 1, returncode |-> 1,
                 stdout |-> "", stderr |-> "Error: cannot open catalog"]).exc))

\* C6: when the engine executable is missing or cannot be started, the
\* response is an error envelope of a kind of its own, not the kind a
\* non-zero exit gives, and it carries no song data.
C6_EngineNotFoundDistinct ==
    \A r \in Requests :
        (Done(r) /\ proc[r].state = "failed") =>
            /\ IsErrorEnvelope(resp[r])
            /\ ErrorKind(resp[r]) # NonZeroExitKind
            /\ NoPartialResult(resp[r])

Causes ==
    { "InvalidArgument", "EngineNotFound", "EngineTimeout", "EngineNonZeroExit",
      "EngineMalformedOutput", "InternalError" }

\* why a finished run failed, or "none"
CauseOf(r) ==
    CASE validate(req[r].op, req[r].data) # NoResp -> "InvalidArgument"
      [] proc[r].state = "failed" -> "EngineNotFound"
      [] proc[r].state = "killed" -> "EngineTimeout"
      [] proc[r].state = "exited" /\ proc[r].plan.returncode # 0 ->
            "EngineNonZeroExit"
      [] proc[r].state = "exited" /\ proc[r].plan.returncode = 0
           /\ (playlist_data[r].raised \/ resp[r].status # 200) ->
            "EngineMalformedOutput"
      [] resp[r].status # 200 -> "InternalError"
      [] OTHER -> "none"

\* the kinds the handlers' envelopes state for each cause of failure
KindsOf(cause) ==
    CASE cause = "InvalidArgument" ->
            { ErrorKind(validate("classify", d)) :
                d \in { b \in TextBodies : validate("classify", b) # NoResp } }
      [] cause = "EngineNotFound" ->
            { ErrorKind(InternalServerError(on_launch_error(k).exc)) :
                k \in {"FileNotFoundError", "PermissionError"} }
      [] cause = "EngineTimeout" ->
            { ErrorKind(InternalServerError(on_timeout.exc)) }
      [] cause = "EngineNonZeroExit" -> { NonZeroExitKind }
      [] cause = "EngineMalformedOutput" ->
            { ErrorKind(InternalServerError(
                 on_exit([launch |-> "ok", duration |-> 1, returncode |-> 0,
                          stdout |-> OutGarbage, stderr |-> ""]).exc)) }
      [] cause = "InternalError" ->
            { ErrorKind(InternalServerError(<< "Can't load the model" >>)) }

\* C7: every failing run ends in exactly one error envelope, never in a
\* success payload, and the kind it states is the kind of no other cause.
C7_KindsDistinguishCauses ==
    \A r \in Requests :
        (Done(r) /\ CauseOf(r) # "none") =>
            /\ IsErrorEnvelope(resp[r])
            /\ \A c \in Causes \ {CauseOf(r)} : ErrorKind(resp[r]) \notin KindsOf(c)

PipelineStages ==
    << "validate", "get_classifier", "classify", "map", "call_cpp_engine",
       "assemble" >>

C9_PipelineRejectsUnusableText ==
    \A r \in Requests :
        (req[r].op \in {"full", "analyze"} /\ TextUnusable(req[r].data)) =>
            /\ "classify" \notin Events(r)
            /\ proc[r] = NoProc
            /\ Done(r) => (resp[r].status = 400 /\ IsErrorEnvelope(resp[r]))

\* C10: /classify answers a request whose text is absent, blank or not a
\* string with a bad-input error without calling the Inference Engine; no
\* run of /classify starts the engine executable; and an accepted run
\* returns what classify() returned, unchanged.
C10_ClassifyOnly ==
    \A r \in Requests :
        req[r].op = "classify" =>
            /\ proc[r] = NoProc
            /\ "call_cpp_engine" \notin Events(r)
            /\ TextUnusable(req[r].data) =>
                  /\ Events(r) \subseteq {"validate"}
                  /\ classification[r] = NoClassification
                  /\ Done(r) => (resp[r].status = 400 /\ IsErrorEnvelope(resp[r]))
            /\ (Done(r) /\ ~TextUnusable(req[r].data)) =>
                  /\ "classify" \in Events(r) \/ resp[r].status = 500
                  /\ ~classification[r].raised =>
                        resp[r] = Ok(classification[r].value)

\* C10 witness: a blank text was turned down
C10_Witness ==
    \E r \in Requests :
        /\ req[r].op = "classify"
        /\ req[r].data.text = Str("   ")
        /\ Done(r)
        /\ resp[r].status = 400

\* a request whose emotions are absent, not a list, empty, or hold an entry
\* that is blank or not a string
EmotionsUnusable(data) ==
    \/ data.json = "none"
    \/ data.emotions.t # "list"
    \/ Len(data.emotions.items) = 0
    \/ \E i \in 1..Len(data.emotions.items) :
          \/ data.emotions.items[i].t # "str"
          \/ data.emotions.items[i].s \in BlankStrings

\* C11: /playlist answers a request whose emotions are absent, not a list,
\* empty, or hold a blank or non-string entry with a bad-input error, and
\* the engine executable is never started in such a run.
C11_PlaylistRejectsUnusableMoods ==
    \A r \in Requests :
        (req[r].op = "playlist" /\ EmotionsUnusable(req[r].data)) =>
            /\ proc[r] = NoProc
            /\ playlist_data[r] = NoPlaylist
            /\ "call_cpp_engine" \notin Events(r)
            /\ Done(r) => (resp[r].status = 400 /\ IsErrorEnvelope(resp[r]))

\* C11 witness: a list with a blank entry after a usable one was turned down
C11_Witness ==
    \E r \in Requests :
        /\ req[r].op = "playlist"
        /\ req[r].data.emotions = List(<< Str("happy"), Str(" ") >>)
        /\ Done(r)
        /\ resp[r] = BadRequest(<< "All emotions must be non-empty strings" >>)
        /\ proc[r] = NoProc

\* C12: however the steps of concurrent requests interleave, at most one
\* EmotionClassifier is ever constructed, and every request that has been
\* given a handle by get_classifier() has been given that same one.
C12_HandleConstructedOnce ==
    /\ Cardinality(handles) <= 1
    /\ \A r \in Requests : classifier[r] # 0 => handles = {classifier[r]}

\* the playlist section of a 200 response of /playlist and /playlist/full
PlaylistOf(r) ==
    IF req[r].op = "playlist" THEN resp[r].body ELSE resp[r].body.playlist

Succeeded(r) == Done(r) /\ resp[r].status = 200

\* C13: in every 200 response of /playlist and /playlist/full, count is
\* the number of entries of songs, whatever the engine printed on exit
\* status 0.
C13_CountIsLength ==
    \A r \in Requests :
        (Succeeded(r) /\ req[r].op \in {"playlist", "full"}) =>
            PlaylistOf(r).count = Len(PlaylistOf(r).songs)

\* the engine exited with status 0
ExitedZero(r) == proc[r].state = "exited" /\ proc[r].plan.returncode = 0

\* stdout that is not one JSON object with a songs list and a count
MalformedOutput(stdout) ==
    LET parsed == json_loads(stdout)
    IN  \/ parsed.raised
        \/ parsed.value.t # "object"
        \/ ~parsed.value.has_songs
        \/ ~parsed.value.has_count

Pieces(msg) == { msg[i] : i \in 1..Len(msg) }

\* C14: when the engine exits with status 0 and its stdout is not a JSON
\* object with songs and count, call_cpp_engine itself raises the
\* "Failed to parse C++ output" failure, and the failure's message carries
\* the stdout text as printed.
C14_MalformedOutputFails ==
    \A r \in Requests :
        (ExitedZero(r) /\ MalformedOutput(proc[r].plan.stdout)) =>
            /\ playlist_data[r] = NoPlaylist
            /\ Done(r)
            /\ resp[r].status = 500
            /\ resp[r].body.message[1] = "Failed to parse C++ output: "
            /\ proc[r].plan.stdout \in Pieces(resp[r].body.message)

\* the engine exited with a status other than 0
ExitedNonZero(r) == proc[r].state = "exited" /\ proc[r].plan.returncode # 0

\* C15: when the engine exits with a status other than 0, call_cpp_engine
\* raises the engine-error failure whose message ends with the captured
\* stderr text, and stdout is not parsed: whatever it holds, no playlist
\* data comes out of the call and no parse failure is reported.
C15_NonZeroExitFails ==
    \A r \in Requests :
        ExitedNonZero(r) =>
            /\ Done(r)
            /\ resp[r] = InternalServerError(
                   << "C++ engine error: ", "C++ engine error: ",
                      proc[r].plan.stderr >>)
            /\ playlist_data[r] = NoPlaylist
            /\ "assemble" \notin Events(r)

\* C15 witness: the engine failed after printing a well-formed playlist
C15_Witness ==
    \E r \in Requests :
        /\ ExitedNonZero(r)
        /\ proc[r].plan.stdout = OutOne
        /\ proc[r].plan.stderr = "Error: cannot open catalog"
        /\ Done(r)
        /\ resp[r].status = 500

Moods == { "happy", "sad", "excited", "neutral" }

\* the label the i-th lookup was made with
LookedUp(i) == IF i = 1 THEN lookup.label ELSE lookup.again

\* C16: EMOTION_MAPPING.get(label, 'neutral') gives each of the 28 labels
\* of the vocabulary exactly one mood of happy, sad, excited and neutral,
\* gives the same label the same mood on every lookup, and gives neutral
\* for any string outside the vocabulary.
C16_MapToMoodTotal ==
    /\ Cardinality(Vocabulary) = 28
    /\ \A i \in 1..Len(lookup.moods) :
          /\ lookup.moods[i] \in Moods
          /\ LookedUp(i) \in Vocabulary =>
                { p[2] : p \in { q \in EMOTION_MAPPING : q[1] = LookedUp(i) } }
                    = { lookup.moods[i] }
          /\ LookedUp(i) \notin Vocabulary => lookup.moods[i] = "neutral"
    /\ (Len(lookup.moods) = 2 /\ lookup.label = lookup.again) =>
          lookup.moods[1] = lookup.moods[2]

\* C16 witness: a string outside the vocabulary was mapped to neutral, and
\* then a label of the vocabulary to its mood
C16_Witness ==
    /\ lookup.label = "Joy"
    /\ lookup.again = "joy"
    /\ lookup.moods = << "neutral", "happy" >>

\* what the engine of the run left on stderr and stdout
EngineText(r) == { proc[r].plan.stderr, proc[r].plan.stdout } \ { "" }

\* str(e) of the exceptions the libraries raise
LibraryText ==
    { "selected index k out of range", "text input must be of type str",
      "Can't load the model", "[Errno 13] Permission denied",
      "Expecting value: line 1 column 1 (char 0)",
      "list indices must be integers or slices, not str" }

\* C17: a 500 response carries a generic message: neither the text of the
\* exception that was caught nor the engine's stderr or stdout appears in
\* the envelope's message.
C17_NoRawDetailEchoed ==
    \A r \in Requests :
        (Done(r) /\ resp[r].status = 500) =>
            /\ IsErrorEnvelope(resp[r])
            /\ Pieces(resp[r].body.message) \cap (EngineText(r) \cup LibraryText) = {}

\* the first min(top_k, len(probs)) entries of the distribution whose score
\* is at least the threshold, in the distribution's order
Retained ==
    SelectSeq(SubSeq(agg.probs, 1, Min(agg.top_k, Len(agg.probs))),
              LAMBDA e : e.score >= agg.threshold)

\* C19: raw_emotions is exactly the entries of the first
\* min(top_k, len(probs)) of the distribution whose score is >= threshold,
\* label and score, in the distribution's order; simplified_emotions is the
\* sorted duplicate-free list of the moods of the retained labels; and when
\* nothing is retained simplified_emotions is empty, not ['neutral'].
C19_TopLabelsAndMoodsExact ==
    AggReturned =>
        LET raw   == agg.out.value.raw_emotions
            moods == agg.out.value.simplified_emotions
        IN  /\ Len(raw) = Len(Retained)
            /\ \A i \in 1..Len(raw) :
                  /\ raw[i].emotion = EMOTION_LABELS[Retained[i].idx + 1]
                  /\ raw[i].score = Retained[i].score
            /\ \A i \in 1..(Len(moods) - 1) :
                  MoodRank(moods[i]) < MoodRank(moods[i + 1])
            /\ { moods[i] : i \in 1..Len(moods) } =
                  { p[2] : p \in { q \in EMOTION_MAPPING :
                        \E i \in 1..Len(raw) : q[1] = raw[i].emotion } }
            /\ raw = << >> => moods = << >>

\* the moods the handler of request r hands to call_cpp_engine
MoodsPassed(r) ==
    IF req[r].op = "playlist"
    THEN [ i \in 1..Len(req[r].data.emotions.items) |->
             req[r].data.emotions.items[i].s ]
    ELSE emotions[r]

\* C20: every start of the engine passes the executable two arguments, the
\* catalog path and then one string: the moods in order with a comma
\* between neighbours, with no whitespace at either end and no comma at the
\* end; for every list /playlist accepts and every list the pipelines make.
C20_EngineArguments ==
    \A r \in Requests :
        proc[r] # NoProc =>
            LET argv   == proc[r].argv
                joined == argv[3]
                moods  == MoodsPassed(r)
            IN  /\ Len(argv) = 3
                /\ argv[1] = CPP_EXECUTABLE
                /\ argv[2] = SONGS_CSV
                /\ Len(moods) >= 1
                /\ Len(joined) = 2 * Len(moods) - 1
                /\ \A i \in 1..Len(moods) : joined[2 * i - 1] = moods[i]
                /\ \A i \in 1..(Len(moods) - 1) : joined[2 * i] = ","
                /\ joined[Len(joined)] # ","
                /\ Strip(joined[1]) = joined[1]
                /\ Strip(joined[Len(joined)]) = joined[Len(joined)]

\* how many times the handler of request r has entered a stage
Entered(r, stage) ==
    Cardinality({ i \in 1..Len(trace[r]) : trace[r][i] = stage })

\* the engine call of request r has failed: the process could not be
\* started, was killed at the timeout, exited with a status other than 0,
\* or printed text json.loads turns down
EngineCallFailed(r) ==
    \/ proc[r].state \in {"failed", "killed"}
    \/ ExitedNonZero(r)
    \/ ExitedZero(r) /\ json_loads(proc[r].plan.stdout).raised

\* C21: a run of a handler calls call_cpp_engine at most once and the call
\* starts the engine process at most once; a call that times out, exits
\* with a status other than 0 or prints malformed output ends the run,
\* without a second call.
C21_EngineInvokedOnce ==
    \A r \in Requests :
        /\ Entered(r, "call_cpp_engine") <= 1
        /\ proc[r] # NoProc => Entered(r, "call_cpp_engine") = 1
        /\ EngineCallFailed(r) => (Done(r) /\ resp[r].status = 500)
        /\ (ExitedZero(r) /\ ~EngineCallFailed(r)) =>
              pc[r] \in {"assembling", "done"}

\* C21 witness: a run whose one engine call timed out has ended
C21_Witness ==
    \E r \in Requests :
        /\ proc[r].state = "killed"
        /\ Entered(r, "call_cpp_engine") = 1
        /\ Done(r)
        /\ resp[r] = InternalServerError(<< "C++ engine timeout" >>)

\* what /playlist answers for the engine process request r started, told
\* from that process alone
OwnOutcome(r) ==
    LET plan == proc[r].plan
    IN  IF plan.duration >= Timeout
        THEN InternalServerError(<< "C++ engine timeout" >>)
        ELSE IF plan.returncode # 0
        THEN InternalServerError(<< "C++ engine error: ", "C++ engine error: ",
                                    plan.stderr >>)
        ELSE IF plan.stdout = OutOne
        THEN Ok([ emotions |-> MoodsPassed(r), songs |-> << Song1 >>,
                  count |-> 1 ])
        ELSE InternalServerError(<< "Failed to parse C++ output: ",
                                    "Expecting value: line 1 column 1 (char 0)" >>)

\* a step that changes the engine process of one request leaves the other
\* requests' processes, clocks, positions and responses as they were
EngineStepIsolated ==
    \A r \in Requests :
        proc'[r] # proc[r] =>
            \A o \in Requests \ {r} :
                /\ proc'[o] = proc[o]
                /\ pc'[o] = pc[o]
                /\ resp'[o] = resp[o]
                /\ playlist_data'[o] = playlist_data[o]

\* C22: concurrent requests each run their own engine process with their
\* own timeout clock: a request's answer is told from its own process
\* alone, whether that process timed out, failed or printed malformed
\* output; a step of one process leaves the other requests untouched; and
\* a call that is waiting for its process comes to an end whatever the
\* other requests' processes do.
C22_EnginesIsolated ==
    /\ [](\A r \in Requests :
            (Done(r) /\ proc[r] # NoProc) => resp[r] = OwnOutcome(r))
    /\ [][EngineStepIsolated]_vars
    /\ \A r \in Requests : (pc[r] = "waiting") ~> (pc[r] # "waiting")

\* C22 witness: a request has been answered with a playlist while the
\* engine process of another request, well into its run, is still going
C22_Witness ==
    \E r, o \in Requests :
        /\ r # o
        /\ proc[r].state = "running"
        /\ proc[r].plan.duration > Timeout
        /\ proc[r].elapsed >= 2
        /\ proc[o].state = "exited"
        /\ Succeeded(o)

\* the moods in the argument the engine process of request r was given
EngineMoods(r) ==
    LET joined == proc[r].argv[3]
    IN  [ i \in 1..((Len(joined) + 1) \div 2) |-> joined[2 * i - 1] ]

\* C23: a 200 response of /playlist repeats the request's emotions as
\* received, in order; a 200 response of /playlist/full reports in
\* playlist.emotions the list the engine was given, and in
\* classification.simplified_emotions what classify() returned, which is
\* empty when the engine was given ['neutral'] in its place.
C23_MoodsEchoed ==
    \A r \in Requests :
        Succeeded(r) =>
            /\ req[r].op = "playlist" =>
                  /\ resp[r].body.emotions = MoodsPassed(r)
                  /\ resp[r].body.emotions = EngineMoods(r)
            /\ req[r].op = "full" =>
                  /\ resp[r].body.playlist.emotions = EngineMoods(r)
                  /\ resp[r].body.classification.simplified_emotions =
                        classification[r].value.simplified_emotions
                  /\ classification[r].value.simplified_emotions = << >> =>
                        resp[r].body.playlist.emotions = << "neutral" >>
                  /\ classification[r].value.simplified_emotions # << >> =>
                        resp[r].body.playlist.emotions =
                            classification[r].value.simplified_emotions

\* C23 witness: a full-pipeline answer with no mood in its classification
\* and ['neutral'] in its playlist
C23_Witness ==
    \E r \in Requests :
        /\ req[r].op = "full"
        /\ Succeeded(r)
        /\ resp[r].body.classification.simplified_emotions = << >>
        /\ resp[r].body.playlist.emotions = << "neutral" >>
        /\ EngineMoods(r) = << "neutral" >>

\* what a step may do to the cached handle when requests come one at a time
HandleStep ==
    /\ \A r \in Requests :
          /\ (pc[r] = "constructing" /\ pc'[r] = "done") =>
                /\ _classifier' = 0
                /\ handles' = handles
                /\ resp'[r].status = 500
                /\ IsErrorEnvelope(resp'[r])
          /\ (pc[r] = "get_classifier" /\ pc'[r] # "get_classifier") =>
                (pc'[r] = "constructing" <=> _classifier = 0)
    /\ _classifier # 0 => (_classifier' = _classifier /\ handles' = handles)
    /\ handles' # handles =>
          /\ handles = {}
          /\ handles' = { _classifier' }
          /\ _classifier' # 0

\* C24: when EmotionClassifier() raises, _classifier stays None and the
\* request ends with a 500; a request that finds _classifier None goes on
\* to construct, so the request after a failure tries again; and once a
\* construction has succeeded no request served after it constructs again
\* and _classifier is never reset.
C24_HandleCaching == [][HandleStep]_vars

\* C24 witness: a construction failed, the request was answered with a 500
\* and no handle is cached
C24_Witness ==
    \E r \in Requests :
        /\ Done(r)
        /\ resp[r] = InternalServerError(<< "Can't load the model" >>)
        /\ trace[r] = << "validate", "get_classifier" >>
        /\ _classifier = 0
        /\ handles = {}

\* the request of r has passed the handler's validation
Accepted(r) == req[r].op # "none" /\ validate(req[r].op, req[r].data) = NoResp

\* get_classifier() or classify() raised in the run of request r
ClassifierFailed(r) ==
    /\ req[r].op # "playlist"
    /\ "get_classifier" \in Events(r)
    /\ classification[r].raised

\* /playlist or /playlist/full was given engine output without a songs
\* list or without a count
OutputLacksField(r) ==
    /\ req[r].op \in {"playlist", "full"}
    /\ ExitedZero(r)
    /\ MalformedOutput(proc[r].plan.stdout)

\* C25: a 400 response is given before any call of the classifier or of
\* the engine in that run; and a run that has passed validation and then
\* meets a failure (of the classifier, of the engine call, or songs or
\* count missing in the engine output) is answered with 500, never with
\* 400 and never with 200.
C25_StatusByStage ==
    \A r \in Requests :
        /\ resp[r].status = 400 =>
              /\ Events(r) = {"validate"}
              /\ ~Accepted(r)
              /\ classifier[r] = 0
              /\ classification[r] = NoClassification
              /\ proc[r] = NoProc
        /\ (Done(r) /\ Accepted(r)) =>
              /\ resp[r].status \in {200, 500}
              /\ (ClassifierFailed(r) \/ EngineCallFailed(r) \/ OutputLacksField(r))
                    => resp[r].status = 500

\* C25 witness: /playlist accepted a request, the engine printed an object
\* without songs, and the answer was a 500
C25_Witness ==
    \E r \in Requests :
        /\ req[r].op = "playlist"
        /\ Accepted(r)
        /\ ExitedZero(r)
        /\ proc[r].plan.stdout = OutNoSongs
        /\ Done(r)
        /\ resp[r] = InternalServerError(<< "'", "songs", "'" >>)

====
